---- MODULE Spec2Model ----
(***************************************************************************)
(* Model of the mailbot reconciliation loop (main.py), the identity store  *)
(* (processed_uids.py), the mailbox operations (imap_client.py), the       *)
(* per-message pipeline (email_processor.py) and the classifier gateway    *)
(* (gemini_client.py).                                                     *)
(*                                                                         *)
(* The IMAP server is the environment: every command issued on a live      *)
(* session answers "OK", "NO" (rejected, no effect) or raises ("EXC", the  *)
(* transport is down afterwards, no effect on the mailbox); on a session   *)
(* whose transport is down every command raises.  A fetch that asks for    *)
(* RFC822 may set \Seen on the message (RFC 3501), which is why the code   *)
(* stores -FLAGS \Seen right after it.                                     *)
(***************************************************************************)
EXTENDS Integers, Sequences, FiniteSets, TLC

\* ---------------------------------------------------------------- bounds
MaxUid == 2
UIDs == 1..MaxUid

\* the number of faults the environment injects: commands answered "NO" or
\* raising on a live session, failed connects, failed appends, decode errors
MaxFaults == 2

\* the number of complete lines of processed_uids.txt when the load of the
\* file is looked at on its own
MaxLines == 2

\* the longest decoded body when the shaping of the classifier input is
\* looked at on its own
MaxBody == 4

\* ------------------------------------------------------------- config.py
SOURCE_INBOX == "INBOX"

VALID_CATEGORIES == {"Personal", "Spam", "Accounts", "Promotions"}

FOLDER_MAPPING ==
  [c \in VALID_CATEGORIES |->
     CASE c = "Personal"   -> SOURCE_INBOX
       [] c = "Spam"       -> "INBOX.spam"
       [] c = "Accounts"   -> "Accounts"
       [] c = "Promotions" -> "Junk"]

DestFolders == {FOLDER_MAPPING[c] : c \in VALID_CATEGORIES} \ {SOURCE_INBOX}

MAX_BODY_CHARS_FOR_GEMINI == 2000

\* ------------------------------------------------------------- variables
VARIABLES
  mail_connection,    \* main.py: "None" or "Session"
  linkUp,             \* transport of the session object is usable
  selected,           \* SOURCE_INBOX is the selected folder of the session
  inbox,              \* server: messages (by UID) in SOURCE_INBOX
  flags,              \* server: flags of each message of SOURCE_INBOX
  folders,            \* server: messages that have a copy in each destination
  cache,              \* processed_uids._processed_uids_cache
  file,               \* processed_uids.txt, one UID per line
  pc,                 \* position of main()
  unseen_email_uids,  \* main.py: the list returned by the unseen search
  idx,                \* position of the for loop in unseen_email_uids
  uid,                \* main.py: the loop variable (0 before the first one)
  category,           \* email_processor.py: result of the classification
  ops,                \* history: calls issued for the message uid
  disp,               \* history: how process_single_email(uid) ended
  markHist,           \* history: the last two calls of MarkUid
  faults,             \* number of faults injected so far
  cls,                \* history: <<>> or <<the classification of uid>>
  IMAP_PASSWORD,      \* config.py: the variable is set in the environment
  GEMINI_API_KEY,     \* config.py: the variable is set in the environment
  gemini_model,       \* gemini_client.gemini_model is not None
  exit_code,          \* <<>> while the process runs, then <<its exit status>>
  caught,             \* history: the last step ended in line 126 of main.py
  tail,               \* processed_uids.txt: <<>> or <<its unterminated last line>>
  file_existed,       \* processed_uids.txt existed when the module was imported
  workers,            \* two loops on one mailbox and one store: where each is
  email_body,         \* imap_client.py: the decoded text/plain payload
  max_chars,          \* config.py: MAX_BODY_CHARS_FOR_GEMINI
  truncated_body      \* gemini_client.py: <<>> or <<the body put in the prompt>>

vars == <<mail_connection, linkUp, selected, inbox, flags, folders, cache,
          file, pc, unseen_email_uids, idx, uid, category, ops, disp,
          markHist, faults, cls, IMAP_PASSWORD, GEMINI_API_KEY, gemini_model,
          exit_code, caught, tail, file_existed, workers, email_body,
          max_chars, truncated_body>>

serverVars == <<inbox, flags, folders>>
storeVars  == <<cache, file, markHist>>
sessVars   == <<mail_connection, linkUp, selected>>
batchVars  == <<unseen_email_uids, idx, uid, category, ops, disp, cls>>
startVars  == <<IMAP_PASSWORD, GEMINI_API_KEY, gemini_model, exit_code>>
logVars    == <<tail, file_existed>>
workerVars == <<workers>>
textVars   == <<email_body, max_chars, truncated_body>>

\* --------------------------------------------------------------- helpers
Range(s) == {s[k] : k \in 1..Len(s)}

Count(s, x) == Cardinality({k \in 1..Len(s) : s[k] = x})

\* ascending list of a set of UIDs (UID SEARCH answers in ascending order)
RECURSIVE SortedSeq(_)
SortedSeq(S) ==
  IF S = {} THEN <<>>
  ELSE LET m == CHOOSE x \in S : \A y \in S : x <= y
       IN <<m>> \o SortedSeq(S \ {m})

\* answers of the server to one command on a session whose transport is up
\* or down, while fewer than MaxFaults faults were injected or not
Results(up, more) ==
  IF ~up THEN {"EXC"} ELSE IF more THEN {"OK", "NO", "EXC"} ELSE {"OK"}

\* the answer r on a live session is an injected fault
IsFault(up, r) == up /\ r # "OK"

Op(o, r) == [op |-> o, res |-> r]

\* the slice t[:n] of Python, for n >= 0
slice_to(t, n) == SubSeq(t, 1, IF Len(t) < n THEN Len(t) ELSE n)

Flags == {"Seen", "Deleted"}

\* ------------------------------------------------------ processed_uids.py
\* a line of the file that is empty after strip(), and a line whose bytes are
\* not text in the encoding of the locale
BLANK == 0
BAD == -1

\* a load that reads nothing
load_processed_uids_nothing(f) == {}

\* load_processed_uids: the stripped, non-empty lines of the file
load_processed_uids(f) == Range(f) \ {BLANK}

\* what a line of the file can hold
LineTexts == UIDs \cup {BLANK, BAD}

\* lines 14-17: the lines the for loop gets; none when the file does not
\* exist, the unterminated last line is one of them, and an IOError ends the
\* reading after stop lines (line 22)
read_lines(existed, f, t, stop) ==
  IF ~existed THEN <<>> ELSE SubSeq(f \o t, 1, stop)

\* the lines in front of the first line that is not text
RECURSIVE before_bad(_)
before_bad(lines) ==
  IF lines = <<>> \/ Head(lines) = BAD THEN <<>>
  ELSE <<Head(lines)>> \o before_bad(Tail(lines))

\* the for loop raises UnicodeDecodeError, which "except IOError" (line 22)
\* does not catch, when the encoding of the locale is strict about the bytes
\* of a line; a lenient encoding (latin-1) reads any bytes as text
load_raises(lines, strict) == strict /\ BAD \in Range(lines)

\* the status of a process that ends with an uncaught exception
EXIT_UNCAUGHT == 1

\* _add_uid_to_file: append one line; an IOError is logged and swallowed
WriteOutcomes == {"ok", "fail"}

_add_uid_to_file(f, u, wr) == IF wr = "ok" THEN Append(f, u) ELSE f

\* an append that lets the IOError out
add_uid_raises_on_failure(wr) == wr = "fail"

\* _add_uid_to_file, lines 32-33: the IOError is caught and logged
add_uid_raises(wr) == FALSE

\* a lookup that never finds the identifier
is_uid_processed_never(c, u) == FALSE

is_uid_processed(c, u) == u \in c

\* a mark that forgets what the cache held
mark_cache_forgets(c, u) == {u}

\* mark_uid_as_processed: the cache after the call
mark_cache(c, u) == IF u \notin c THEN c \cup {u} ELSE c

\* a mark that appends whether or not the identifier is cached
mark_io_always(c, u) == TRUE

\* mark_uid_as_processed: does the call reach _add_uid_to_file
mark_io(c, u) == u \notin c

\* mark_uid_as_processed: the file after the call
mark_file(c, f, u, wr) == IF mark_io(c, u) THEN _add_uid_to_file(f, u, wr) ELSE f

\* history of the last two calls of mark_uid_as_processed
Remember(h, e) == IF Len(h) < 2 THEN Append(h, e) ELSE <<h[2], e>>

\* -------------------------------------------------------- gemini_client.py
Responses == VALID_CATEGORIES \cup {"garbage", "EXC"}

\* the category returned when there is no model, nothing to classify, an
\* invalid answer or a raise (lines 75, 79, 98 and 101)
FALLBACK == "Promotions"

\* a gateway that calls the service for an empty message too
gemini_called_for_empty(model_ok, subject_empty, body_empty) == model_ok

\* classify_email_with_gemini: does the call reach generate_content (line 91)
gemini_called(model_ok, subject_empty, body_empty) ==
  model_ok /\ ~(subject_empty /\ body_empty)

\* a gateway that hands an invalid answer or a raise on to its caller
classify_email_with_gemini_hands_on(model_ok, subject_empty, body_empty, response) ==
  IF ~model_ok THEN FALLBACK
  ELSE IF subject_empty /\ body_empty THEN FALLBACK
  ELSE response

classify_email_with_gemini(model_ok, subject_empty, body_empty, response) ==
  IF ~model_ok THEN FALLBACK
  ELSE IF subject_empty /\ body_empty THEN FALLBACK
  ELSE IF response \in VALID_CATEGORIES THEN response
  ELSE FALLBACK

\* what the history keeps of one classification: was there anything to
\* classify, was the service called and what did it answer
Classified(subject_empty, body_empty, called, response) ==
  [empty    |-> subject_empty /\ body_empty,
   called   |-> called,
   response |-> IF called THEN response ELSE "None"]

\* line 81: truncated_body = body[:MAX_BODY_CHARS_FOR_GEMINI]
prompt_body(body, cap) == slice_to(body, cap)

\* a gateway that records the identifier as processed on its own
cache_after_classification_marks(c, u) == c \cup {u}

\* lines 70-101: the gateway reads its three arguments and gemini_model and
\* writes nothing; the processed set is the same after the call
cache_after_classification(c, u) == c

\* ---------------------------------------------------------- imap_client.py
\* a probe that finds every session alive
is_imap_connected_always(conn, noop) == TRUE

is_imap_connected(conn, noop) == conn # "None" /\ noop = "OK"

\* get_new_email_uids: the unseen UIDs of the selected folder, or [] on "NO"
get_new_email_uids(r, box, fl) ==
  IF r = "OK" THEN SortedSeq({m \in box : "Seen" \notin fl[m]}) ELSE <<>>

\* a move that takes only a raise of the copy for a failure
move_email_next_deletes_uncopied(cmd, r) ==
  CASE cmd = "copy"          /\ r # "EXC" -> "store_deleted"
    [] cmd = "store_deleted" /\ r = "OK"  -> "expunge"
    [] cmd = "expunge"       /\ r = "OK"  -> "True"
    [] OTHER -> "False"

\* a move that flags the source deleted whatever the copy answered
move_email_next_ignores_copy(cmd, r) ==
  CASE cmd = "copy"                      -> "store_deleted"
    [] cmd = "store_deleted" /\ r = "OK" -> "expunge"
    [] cmd = "expunge"       /\ r = "OK" -> "True"
    [] OTHER -> "False"

\* a move that copies again when the store of \Deleted failed
move_email_next_retries_copy(cmd, r) ==
  CASE cmd = "copy"          /\ r = "OK" -> "store_deleted"
    [] cmd = "store_deleted" /\ r = "OK" -> "expunge"
    [] cmd = "store_deleted" /\ r # "OK" -> "copy"
    [] cmd = "expunge"       /\ r = "OK" -> "True"
    [] OTHER -> "False"

\* a move that expunges whatever the store of \Deleted answered
move_email_next_expunges_anyway(cmd, r) ==
  CASE cmd = "copy"          /\ r = "OK" -> "store_deleted"
    [] cmd = "store_deleted"             -> "expunge"
    [] cmd = "expunge"       /\ r = "OK" -> "True"
    [] OTHER -> "False"

\* a move that reports failure after a successful expunge
move_email_next_drops_success(cmd, r) ==
  CASE cmd = "copy"          /\ r = "OK" -> "store_deleted"
    [] cmd = "store_deleted" /\ r = "OK" -> "expunge"
    [] OTHER -> "False"

\* move_email: what follows the answer r to the command cmd
move_email_next(cmd, r) ==
  CASE cmd = "copy"          /\ r = "OK" -> "store_deleted"
    [] cmd = "store_deleted" /\ r = "OK" -> "expunge"
    [] cmd = "expunge"       /\ r = "OK" -> "True"
    [] OTHER -> "False"

\* a purge of the moved message alone, as UID EXPUNGE of RFC 4315 would do
Expunged_only_uid(box, fl) == {m \in box : "Deleted" \in fl[m]} \cap {uid}

\* EXPUNGE removes every message of the selected folder flagged \Deleted
Expunged(box, fl) == {m \in box : "Deleted" \in fl[m]}

\* the characters of a body: white space and anything else
Chars == {" ", "x"}

Texts == UNION {[1..n -> Chars] : n \in 0..MaxBody}

\* the values of max_chars: the configured one, and small ones that bodies of
\* up to MaxBody characters exceed
Caps == (1..MaxBody) \cup {MAX_BODY_CHARS_FOR_GEMINI}

\* str.strip(): without the white space at both ends
RECURSIVE lstrip(_)
lstrip(t) == IF t # <<>> /\ Head(t) = " " THEN lstrip(Tail(t)) ELSE t

RECURSIVE rstrip(_)
rstrip(t) ==
  IF t # <<>> /\ t[Len(t)] = " " THEN rstrip(SubSeq(t, 1, Len(t) - 1)) ELSE t

strip(t) == rstrip(lstrip(t))

\* an extraction that cuts the body before it strips it
get_email_body_cuts_before_strip(text, cap) == strip(slice_to(text, cap))

\* get_email_body, lines 101-105: strip, then cut to max_chars when
\* max_chars is given and exceeded
get_email_body(text, cap) ==
  LET body == strip(text)
  IN IF cap # 0 /\ Len(body) > cap THEN slice_to(body, cap) ELSE body

\* ------------------------------------------------------ email_processor.py
\* a mapping that has no entry for the fallback category
destination_folder_partial(c) ==
  IF c \in DOMAIN FOLDER_MAPPING \ {FALLBACK} THEN FOLDER_MAPPING[c] ELSE "None"

\* FOLDER_MAPPING.get(category)
destination_folder(c) ==
  IF c \in DOMAIN FOLDER_MAPPING THEN FOLDER_MAPPING[c] ELSE "None"

\* destination_folder == SOURCE_INBOX (line 57), and a test that never holds
stays_in_source_never(d) == FALSE

stays_in_source(d) == d = SOURCE_INBOX

\* a pipeline that reports success after a processing error
process_single_email_returns_true_on_error(d) ==
  d \in {"stay", "moved", "unknown", "error"}

\* a pipeline that reports success for a failed move
process_single_email_returns_true_on_failed_move(d) ==
  d \in {"stay", "moved", "unknown", "move_failed"}

\* the value process_single_email returns for each way it can end
process_single_email_returns(d) ==
  CASE d = "stay"         -> TRUE
    [] d = "moved"        -> TRUE
    [] d = "unknown"      -> TRUE
    [] d = "move_failed"  -> FALSE
    [] d = "fetch_failed" -> FALSE
    [] d = "no_content"   -> FALSE
    [] d = "error"        -> FALSE

Dispositions == {"stay", "moved", "unknown", "move_failed", "fetch_failed",
                 "no_content", "error"}

\* two loops of main() that run against one mailbox and one processed set
Workers == {"w1", "w2"}

\* a loop that is at the head of its for loop and has classified nothing yet
Idle == [pc |-> "check", uid |-> 0, classified |-> {}]

WithFlag(fl, m, f)    == [fl EXCEPT ![m] = @ \cup {f}]
WithoutFlag(fl, m, f) == [fl EXCEPT ![m] = @ \ {f}]

\* ------------------------------------------------------------------ Init
\* the state when main() is called: processed_uids was imported (the cache
\* holds the lines of the file), the two variables of the environment are set
\* or not, there is no model and no session yet; the source folder holds read
\* and unread messages, none of them flagged \Deleted yet
Init ==
  /\ IMAP_PASSWORD \in BOOLEAN
  /\ GEMINI_API_KEY \in BOOLEAN
  /\ gemini_model = FALSE
  /\ exit_code = <<>>
  /\ caught = FALSE
  /\ tail = <<>>
  /\ file_existed = TRUE
  /\ mail_connection = "None"
  /\ linkUp = FALSE
  /\ selected = FALSE
  /\ inbox \in SUBSET UIDs
  /\ flags \in [UIDs -> {{}, {"Seen"}}]
  /\ \A m \in UIDs \ inbox : flags[m] = {}
  /\ folders = [f \in DestFolders |-> {}]
  /\ file \in {SortedSeq(S) : S \in SUBSET UIDs}
  /\ cache = load_processed_uids(file)
  /\ pc = "start"
  /\ unseen_email_uids = <<>>
  /\ idx = 1
  /\ uid = 0
  /\ category = "None"
  /\ ops = <<>>
  /\ disp = "None"
  /\ markHist = <<>>
  /\ faults = 0
  /\ cls = <<>>
  /\ workers = [w \in Workers |-> Idle]
  /\ email_body = <<>>
  /\ max_chars = MAX_BODY_CHARS_FOR_GEMINI
  /\ truncated_body = <<>>

\* one command on the session: its answer r, the transport and the fault count
Answer(r) ==
  /\ r \in Results(linkUp, faults < MaxFaults)
  /\ faults' = IF IsFault(linkUp, r) THEN faults + 1 ELSE faults

\* a session that is unusable after any answer but OK
link_after_drops_on_no(up, r) == up /\ r = "OK"

\* the transport after the answer r: imaplib returns a rejected command as
\* a status (imap_client.py line 144, email_processor.py line 18), the
\* session stays usable; a raise leaves it down
link_after(up, r) == up /\ r # "EXC"

Cmd(r) ==
  /\ Answer(r)
  /\ linkUp' = link_after(linkUp, r)

\* ---------------------------------------------------- main.py, the start
\* pre_run_checks (lines 28-46): both variables must be set; the folder
\* checks only log
pre_run_checks(password, key) == password /\ key

\* the status of a process whose main() returns (lines 51, 58, 135)
EXIT_RETURN == 0

\* lines 50-51: main() returns when the checks fail
Start ==
  /\ pc = "start"
  /\ IF pre_run_checks(IMAP_PASSWORD, GEMINI_API_KEY)
     THEN /\ pc' = "init_gemini"
          /\ UNCHANGED exit_code
     ELSE /\ pc' = "exited"
          /\ exit_code' = <<EXIT_RETURN>>
  /\ UNCHANGED <<sessVars, serverVars, storeVars, batchVars, faults,
                 IMAP_PASSWORD, GEMINI_API_KEY, gemini_model, caught, logVars,
                 workerVars, textVars>>

\* lines 53-61: initialize_gemini() leaves gemini_model None when anything
\* raises, and main() returns; otherwise the first sleep, then the loop
InitGemini ==
  /\ pc = "init_gemini"
  /\ \E ok \in BOOLEAN :
       /\ gemini_model' = ok
       /\ IF ok
          THEN /\ pc' = "probe"
               /\ UNCHANGED exit_code
          ELSE /\ pc' = "exited"
               /\ exit_code' = <<EXIT_RETURN>>
  /\ UNCHANGED <<sessVars, serverVars, storeVars, batchVars, faults,
                 IMAP_PASSWORD, GEMINI_API_KEY, caught, logVars,
                 workerVars, textVars>>

\* ------------------------------------------------------- main.py, the loop
\* a handler that keeps the session it was given
on_exception_keeps_session(conn) == conn

\* a loop that searches whatever the select answered
select_next_ignores_status(r) == "search"

\* lines 84-94: after the select, the search when it answered OK, else the
\* sleep and the next cycle
select_next(r) == IF r = "OK" THEN "search" ELSE "probe"

\* a select failure that keeps the session
on_select_failure_keeps_session(conn) == conn

\* lines 85-92: after a select that did not answer OK the session is logged
\* out and mail_connection set to None
on_select_failure(conn) == "None"

\* lines 126-129: the handler of the loop body sets mail_connection = None
on_exception(conn) == "None"

\* a for loop that leaves out the identifier after the one it handled
next_uid_index_skips(i) == i + 2

\* line 105: the for loop goes on with the next identifier of the list
next_uid_index(i) == i + 1

\* a loop that connects anew in every cycle
probe_next_reconnects(alive) == "connect"

\* lines 68-76: a session that answers the probe is used as it is, anything
\* else is replaced by a new connection
probe_next(alive) == IF alive THEN "select" ELSE "connect"

\* line 68: the liveness probe at the start of a cycle; without a session
\* object no NOOP is sent
Probe ==
  /\ pc = "probe"
  /\ IF mail_connection = "None"
     THEN /\ pc' = probe_next(FALSE)
          /\ UNCHANGED <<linkUp, faults>>
     ELSE \E r \in {"OK", "NO", "EXC"} :
            /\ Cmd(r)
            /\ pc' = probe_next(is_imap_connected(mail_connection, r))
  /\ caught' = FALSE
  /\ UNCHANGED <<mail_connection, selected, serverVars, storeVars, batchVars,
                 startVars, logVars, workerVars, textVars>>

\* lines 70-76: log the old session out (errors ignored) and connect
Connect ==
  /\ pc = "connect"
  /\ \E ok \in BOOLEAN :
       /\ ok \/ faults < MaxFaults
       /\ faults' = IF ok THEN faults ELSE faults + 1
       /\ mail_connection' = IF ok THEN "Session" ELSE "None"
       /\ linkUp' = ok
       /\ selected' = FALSE
       /\ pc' = IF ok THEN "probe2" ELSE "probe"
  /\ UNCHANGED <<serverVars, storeVars, batchVars, startVars, logVars,
                 workerVars, textVars, caught>>

\* lines 78-81: the probe of the new session
Probe2 ==
  /\ pc = "probe2"
  /\ \E r \in {"OK", "NO", "EXC"} :
       /\ Cmd(r)
       /\ pc' = IF is_imap_connected(mail_connection, r) THEN "select"
                ELSE "probe"
  /\ UNCHANGED <<mail_connection, selected, serverVars, storeVars, batchVars,
                 startVars, logVars, workerVars, textVars, caught>>

\* lines 84-94: select SOURCE_INBOX read-write; on a non-OK status the session
\* is logged out and dropped, a raise goes to line 126 which drops it too
Select ==
  /\ pc = "select"
  /\ \E r \in {"OK", "NO", "EXC"} :
       /\ Answer(r)
       /\ mail_connection' = CASE r = "OK"  -> mail_connection
                                [] r = "NO"  -> on_select_failure(mail_connection)
                                [] r = "EXC" -> on_exception(mail_connection)
       /\ linkUp' = (r = "OK")
       /\ selected' = (r = "OK")
       /\ pc' = select_next(r)
       /\ caught' = (r = "EXC")
  /\ UNCHANGED <<serverVars, storeVars, batchVars, startVars, logVars,
                 workerVars, textVars>>

\* line 99: the unseen search; a raise goes to line 126
Search ==
  /\ pc = "search"
  /\ \E r \in {"OK", "NO", "EXC"} :
       /\ Cmd(r)
       /\ IF r = "EXC"
          THEN /\ mail_connection' = on_exception(mail_connection)
               /\ selected' = FALSE
               /\ pc' = "probe"
               /\ caught' = TRUE
               /\ UNCHANGED batchVars
          ELSE /\ unseen_email_uids' = get_new_email_uids(r, inbox, flags)
               /\ idx' = 1
               /\ pc' = "loop"
               /\ UNCHANGED <<mail_connection, selected, uid, category, ops, disp,
                              cls, caught>>
  /\ UNCHANGED <<serverVars, storeVars, startVars, logVars,
                 workerVars, textVars>>

\* lines 105-111: the head of the for loop; after the last identifier the
\* cycle ends with the sleep of line 132
Loop ==
  /\ pc = "loop"
  /\ IF idx > Len(unseen_email_uids)
     THEN /\ pc' = "probe"
          /\ unseen_email_uids' = <<>>
          /\ idx' = 1
          /\ uid' = 0
          /\ category' = "None"
          /\ ops' = <<>>
          /\ disp' = "None"
          /\ cls' = <<>>
     ELSE /\ uid' = unseen_email_uids[idx]
          /\ ops' = <<>>
          /\ category' = "None"
          /\ cls' = <<>>
          /\ UNCHANGED unseen_email_uids
          /\ IF is_uid_processed(cache, unseen_email_uids[idx])
             THEN /\ disp' = "skipped"
                  /\ idx' = next_uid_index(idx)
                  /\ pc' = "loop"
             ELSE /\ disp' = "None"
                  /\ idx' = idx
                  /\ pc' = "fetch"
  /\ UNCHANGED <<sessVars, serverVars, storeVars, faults, startVars, logVars,
                 workerVars, textVars, caught>>

\* process_single_email ends in the way d; main.py lines 113-119
Return(d) ==
  /\ disp' = d
  /\ IF process_single_email_returns(d)
     THEN /\ pc' = "mark"
          /\ idx' = idx
     ELSE /\ pc' = "loop"
          /\ idx' = next_uid_index(idx)
  /\ UNCHANGED <<unseen_email_uids, uid>>

InCall == UNCHANGED <<unseen_email_uids, idx, uid, disp>>

\* --------------------------------- email_processor.py, process_single_email
\* lines 14-25: UID FETCH (RFC822 BODY.PEEK[]); a raise or a non-OK status
\* ends the call with False
Fetch ==
  /\ pc = "fetch"
  /\ \E r \in {"OK", "NO", "EXC"} :
       /\ Cmd(r)
       /\ ops' = Append(ops, Op("fetch", r))
       /\ IF r = "OK"
          THEN /\ \E sets_seen \in BOOLEAN :
                    flags' = IF sets_seen /\ uid \in inbox
                             THEN WithFlag(flags, uid, "Seen") ELSE flags
               /\ pc' = "restore"
               /\ InCall
          ELSE /\ Return("fetch_failed")
               /\ UNCHANGED flags
  /\ UNCHANGED <<mail_connection, selected, inbox, folders, storeVars,
                 category, cls, startVars, logVars,
                 workerVars, textVars, caught>>

\* lines 27-33: UID STORE -FLAGS \Seen; the answer is not looked at and a
\* raise is only logged
Restore ==
  /\ pc = "restore"
  /\ \E r \in {"OK", "NO", "EXC"} :
       /\ Cmd(r)
       /\ ops' = Append(ops, Op("store_unseen", r))
       /\ flags' = IF r = "OK" /\ uid \in inbox
                   THEN WithoutFlag(flags, uid, "Seen") ELSE flags
  /\ pc' = "classify"
  /\ InCall
  /\ UNCHANGED <<mail_connection, selected, inbox, folders, storeVars,
                 category, cls, startVars, logVars,
                 workerVars, textVars, caught>>

\* lines 35-59 and 66-68: parse the first tuple of the answer, classify, look
\* the folder up; a message that stays ends the call with True after the delay
Classify ==
  /\ pc = "classify"
  /\ IF uid \notin inbox
     THEN \* no tuple in msg_data: line 80
          /\ Return("no_content")
          /\ UNCHANGED <<ops, category, faults, cls, cache>>
     ELSE \E decodes \in BOOLEAN, se, be \in BOOLEAN, resp \in Responses :
          IF ~decodes
          THEN \* line 70: the parse or decode raised
               /\ faults < MaxFaults
               /\ faults' = faults + 1
               /\ pc' = "restore2"
               /\ InCall
               /\ UNCHANGED <<category, ops, cls, cache>>
          ELSE LET called == gemini_called(gemini_model, se, be)
                   failed == called /\ resp \notin VALID_CATEGORIES
                   c == classify_email_with_gemini(gemini_model, se, be, resp)
                   d == destination_folder(c)
               IN /\ ~failed \/ faults < MaxFaults
                  /\ faults' = IF failed THEN faults + 1 ELSE faults
                  /\ category' = c
                  /\ cls' = <<Classified(se, be, called, resp)>>
                  /\ cache' = cache_after_classification(cache, uid)
                  /\ CASE d = "None" ->
                            /\ ops' = Append(ops, Op("classify", c))
                            /\ Return("unknown")
                       [] d # "None" /\ stays_in_source(d) ->
                            /\ ops' = ops \o <<Op("classify", c), Op("delay", "OK")>>
                            /\ Return("stay")
                       [] OTHER ->
                            /\ ops' = Append(ops, Op("classify", c))
                            /\ pc' = "copy"
                            /\ InCall
  /\ UNCHANGED <<sessVars, serverVars, file, markHist, startVars, logVars,
                 workerVars, textVars,
                 caught>>

\* lines 70-78: after a processing error, store -FLAGS \Seen again, return False
Restore2 ==
  /\ pc = "restore2"
  /\ \E r \in {"OK", "NO", "EXC"} :
       /\ Cmd(r)
       /\ ops' = Append(ops, Op("store_unseen", r))
       /\ flags' = IF r = "OK" /\ uid \in inbox
                   THEN WithoutFlag(flags, uid, "Seen") ELSE flags
  /\ Return("error")
  /\ UNCHANGED <<mail_connection, selected, inbox, folders, storeVars,
                 category, cls, startVars, logVars,
                 workerVars, textVars, caught>>

\* the end of move_email inside process_single_email (lines 60-68)
MoveEnds(next) ==
  IF next = "True" THEN Return("moved") ELSE Return("move_failed")

MoveGoes(next) ==
  IF next \in {"True", "False"} THEN MoveEnds(next)
  ELSE pc' = next /\ InCall

\* ------------------------------------------------- imap_client.py, move_email
\* line 144: UID COPY to the destination folder
Copy ==
  /\ pc = "copy"
  /\ \E r \in {"OK", "NO", "EXC"} :
       /\ Cmd(r)
       /\ ops' = Append(ops, Op("copy", r))
       /\ folders' = IF r = "OK"
                     THEN [folders EXCEPT ![destination_folder(category)] = @ \cup {uid}]
                     ELSE folders
       /\ MoveGoes(move_email_next("copy", r))
  /\ UNCHANGED <<mail_connection, selected, inbox, flags, storeVars, category,
                 cls, startVars, logVars, workerVars, textVars, caught>>

\* line 149: UID STORE +FLAGS \Deleted
StoreDeleted ==
  /\ pc = "store_deleted"
  /\ \E r \in {"OK", "NO", "EXC"} :
       /\ Cmd(r)
       /\ ops' = Append(ops, Op("store_deleted", r))
       /\ flags' = IF r = "OK" /\ uid \in inbox
                   THEN WithFlag(flags, uid, "Deleted") ELSE flags
       /\ MoveGoes(move_email_next("store_deleted", r))
  /\ UNCHANGED <<mail_connection, selected, inbox, folders, storeVars,
                 category, cls, startVars, logVars,
                 workerVars, textVars, caught>>

\* line 153: EXPUNGE; on OK process_single_email sleeps and returns True
Expunge ==
  /\ pc = "expunge"
  /\ \E r \in {"OK", "NO", "EXC"} :
       LET next == move_email_next("expunge", r)
           gone == IF r = "OK" THEN Expunged(inbox, flags) ELSE {}
       IN /\ Cmd(r)
          /\ ops' = IF next = "True"
                    THEN ops \o <<Op("expunge", r), Op("delay", "OK")>>
                    ELSE Append(ops, Op("expunge", r))
          /\ inbox' = inbox \ gone
          /\ flags' = [m \in UIDs |-> IF m \in gone THEN {} ELSE flags[m]]
          /\ MoveGoes(next)
  /\ UNCHANGED <<mail_connection, selected, folders, storeVars, category, cls,
                 startVars, logVars, workerVars, textVars, caught>>

\* ------------------------- processed_uids.py, mark_uid_as_processed(u)
\* wr is the outcome of the append, should the call reach it
MarkCall(u, wr) ==
  /\ wr = "ok" \/ (mark_io(cache, u) /\ faults < MaxFaults)
  /\ faults' = IF wr = "ok" THEN faults ELSE faults + 1
  /\ cache' = mark_cache(cache, u)
  /\ file' = mark_file(cache, file, u, wr)

\* ------------------------------------------------------ main.py line 114
Mark ==
  /\ pc = "mark"
  /\ \E wr \in WriteOutcomes :
       /\ MarkCall(uid, wr)
       /\ IF mark_io(cache, uid) /\ add_uid_raises(wr)
          THEN \* an error out of the call would end the batch in line 126
               /\ mail_connection' = on_exception(mail_connection)
               /\ pc' = "probe"
               /\ caught' = TRUE
               /\ UNCHANGED idx
          ELSE /\ pc' = "loop"
               /\ idx' = next_uid_index(idx)
               /\ UNCHANGED <<mail_connection, caught>>
  /\ UNCHANGED markHist
  /\ UNCHANGED <<linkUp, selected, serverVars, unseen_email_uids, uid, category,
                 ops, disp, cls, startVars, logVars, workerVars, textVars>>

Next ==
  \/ Start \/ InitGemini
  \/ Probe \/ Connect \/ Probe2 \/ Select \/ Search \/ Loop
  \/ Fetch \/ Restore \/ Classify \/ Restore2
  \/ Copy \/ StoreDeleted \/ Expunge \/ Mark

Spec == Init /\ [][Next]_vars

\* the loop of main() never stops on its own: every sleep ends and every call
\* returns or raises, so some step of the program is always taken
SpecFair == Spec /\ WF_vars(Next)

\* --------------------------------------------------- main.py, an interrupt
\* the status of a process that ends with an unhandled KeyboardInterrupt: 1,
\* or 130 where the interpreter dies of SIGINT (main.py has no handler for
\* it: line 126 catches Exception only, line 135 calls main() bare)
EXIT_INTERRUPT == {1, 130}

\* a KeyboardInterrupt raised wherever main() is; it passes every "except
\* Exception" on its way out, nothing is logged out, nothing else is written
Interrupt ==
  /\ pc # "exited"
  /\ pc' = "exited"
  /\ \E c \in EXIT_INTERRUPT : exit_code' = <<c>>
  /\ UNCHANGED <<sessVars, serverVars, storeVars, batchVars, faults,
                 IMAP_PASSWORD, GEMINI_API_KEY, gemini_model, caught, logVars,
                 workerVars, textVars>>

NextInterrupt == Next \/ Interrupt

SpecInterrupt == Init /\ [][NextInterrupt]_vars

\* --------------------------------- processed_uids.py, the load at import
\* the state before processed_uids is imported: the file is missing, or it
\* holds complete lines (identifiers, blank lines, lines that are not text)
\* and maybe an unterminated last line, left by an interrupted append
InitLoad ==
  /\ file_existed \in BOOLEAN
  /\ file \in UNION {[1..n -> LineTexts] : n \in 0..MaxLines}
  /\ tail \in {<<>>} \cup {<<u>> : u \in UIDs}
  /\ ~file_existed => file = <<>> /\ tail = <<>>
  /\ cache = {}
  /\ pc = "import"
  /\ mail_connection = "None" /\ linkUp = FALSE /\ selected = FALSE
  /\ inbox = {} /\ flags = [m \in UIDs |-> {}]
  /\ folders = [f \in DestFolders |-> {}]
  /\ unseen_email_uids = <<>> /\ idx = 1 /\ uid = 0
  /\ category = "None" /\ ops = <<>> /\ disp = "None" /\ cls = <<>>
  /\ markHist = <<>> /\ faults = 0 /\ caught = FALSE
  /\ IMAP_PASSWORD = TRUE /\ GEMINI_API_KEY = TRUE
  /\ gemini_model = FALSE /\ exit_code = <<>>
  /\ workers = [w \in Workers |-> Idle]
  /\ email_body = <<>> /\ truncated_body = <<>>
  /\ max_chars = MAX_BODY_CHARS_FOR_GEMINI

\* lines 48-49 and 11-24: load_processed_uids() when the module is imported
Load ==
  /\ pc = "import"
  /\ \E stop \in 0..Len(file \o tail), strict \in BOOLEAN :
       LET lines == read_lines(file_existed, file, tail, stop)
       IN IF load_raises(lines, strict)
          THEN /\ cache' = cache \cup load_processed_uids(before_bad(lines))
               /\ pc' = "exited"
               /\ exit_code' = <<EXIT_UNCAUGHT>>
          ELSE /\ cache' = cache \cup load_processed_uids(lines)
               /\ pc' = "start"
               /\ UNCHANGED exit_code
  /\ UNCHANGED <<sessVars, serverVars, file, markHist, batchVars, faults,
                 IMAP_PASSWORD, GEMINI_API_KEY, gemini_model, caught, logVars,
                 workerVars, textVars>>

NextLoad == Load

SpecLoad == InitLoad /\ [][NextLoad]_vars

\* ------------------------------------------- the identity store on its own
\* any caller marking any identifier, in any order
MarkUid ==
  /\ \E u \in UIDs, wr \in WriteOutcomes :
       /\ MarkCall(u, wr)
       /\ markHist' = Remember(markHist, [uid |-> u, io |-> mark_io(cache, u),
                                          wr |-> wr])
  /\ UNCHANGED <<sessVars, serverVars, pc, batchVars, startVars, logVars,
                 workerVars, textVars, caught>>

NextStore == MarkUid

SpecStore == Init /\ [][NextStore]_vars

\* ------------------------------------ the shaping of the classifier input
\* a message whose text/plain payload was decoded, in front of line 43 of
\* email_processor.py; nothing else is going on
InitBody ==
  /\ email_body \in Texts
  /\ max_chars \in Caps
  /\ truncated_body = <<>>
  /\ pc = "body"
  /\ mail_connection = "Session" /\ linkUp = TRUE /\ selected = TRUE
  /\ inbox = {} /\ flags = [m \in UIDs |-> {}]
  /\ folders = [f \in DestFolders |-> {}]
  /\ cache = {} /\ file = <<>> /\ markHist = <<>>
  /\ unseen_email_uids = <<>> /\ idx = 1 /\ uid = 0
  /\ category = "None" /\ ops = <<>> /\ disp = "None" /\ cls = <<>>
  /\ faults = 0 /\ caught = FALSE
  /\ IMAP_PASSWORD = TRUE /\ GEMINI_API_KEY = TRUE
  /\ gemini_model = TRUE /\ exit_code = <<>>
  /\ tail = <<>> /\ file_existed = TRUE
  /\ workers = [w \in Workers |-> Idle]

\* email_processor.py lines 43-49 and gemini_client.py lines 77-87: the body is
\* extracted with max_chars, and unless subject and body are both empty it
\* is cut again and put in the prompt
ShapeBody ==
  /\ pc = "body"
  /\ \E subject_empty \in BOOLEAN :
       LET body == get_email_body(email_body, max_chars)
       IN IF gemini_called(gemini_model, subject_empty, body = <<>>)
          THEN /\ truncated_body' = <<prompt_body(body, max_chars)>>
               /\ pc' = "prompted"
          ELSE /\ truncated_body' = <<>>
               /\ pc' = "not_called"
  /\ UNCHANGED <<sessVars, serverVars, storeVars, batchVars, faults, startVars,
                 logVars, workerVars, email_body, max_chars, caught>>

NextBody == ShapeBody

SpecBody == InitBody /\ [][NextBody]_vars

\* ------------------------------------------- two loops on one identity store
\* main.py lines 105-111 in the loop w: the next identifier of its unseen
\* list is looked up in the processed set
WorkerCheck(w) ==
  /\ workers[w].pc = "check"
  /\ \E u \in {m \in inbox : "Seen" \notin flags[m]} :
       workers' = [workers EXCEPT
                     ![w].uid = u,
                     ![w].pc = IF is_uid_processed(cache, u) THEN "check"
                               ELSE "process"]
  /\ UNCHANGED <<sessVars, serverVars, storeVars, pc, batchVars, faults,
                 startVars, logVars, textVars, caught>>

\* main.py line 113 in the loop w: process_single_email classifies the
\* message if it is still in the source folder, then it stays, is moved or
\* the move fails
WorkerProcess(w) ==
  /\ workers[w].pc = "process"
  /\ LET u == workers[w].uid
     IN IF u \notin inbox
        THEN /\ workers' = [workers EXCEPT ![w].pc = "check"]
             /\ UNCHANGED serverVars
        ELSE \E c \in VALID_CATEGORIES, move_ok \in BOOLEAN :
               LET dest == destination_folder(c)
                   d == IF stays_in_source(dest) THEN "stay"
                        ELSE IF move_ok THEN "moved" ELSE "move_failed"
               IN /\ workers' = [workers EXCEPT
                                   ![w].classified = @ \cup {u},
                                   ![w].pc = IF process_single_email_returns(d)
                                             THEN "mark" ELSE "check"]
                  /\ IF d = "moved"
                     THEN /\ inbox' = inbox \ {u}
                          /\ flags' = [flags EXCEPT ![u] = {}]
                          /\ folders' = [folders EXCEPT ![dest] = @ \cup {u}]
                     ELSE UNCHANGED serverVars
  /\ UNCHANGED <<sessVars, storeVars, pc, batchVars, faults, startVars,
                 logVars, textVars, caught>>

\* main.py line 114 in the loop w: mark_uid_as_processed
WorkerMark(w) ==
  /\ workers[w].pc = "mark"
  /\ \E wr \in WriteOutcomes : MarkCall(workers[w].uid, wr)
  /\ workers' = [workers EXCEPT ![w].pc = "check"]
  /\ UNCHANGED <<sessVars, serverVars, markHist, pc, batchVars, startVars,
                 logVars, textVars, caught>>

NextWorkers ==
  \E w \in Workers : WorkerCheck(w) \/ WorkerProcess(w) \/ WorkerMark(w)

SpecWorkers == Init /\ [][NextWorkers]_vars

\* the positions of main() inside process_single_email
CallPcs == {"fetch", "restore", "classify", "restore2", "copy",
            "store_deleted", "expunge"}

\* -------------------------------------------------------- type invariant
TypeOK ==
  /\ mail_connection \in {"None", "Session"}
  /\ linkUp \in BOOLEAN /\ selected \in BOOLEAN
  /\ inbox \subseteq UIDs
  /\ flags \in [UIDs -> SUBSET Flags]
  /\ folders \in [DestFolders -> SUBSET UIDs]
  /\ cache \subseteq UIDs
  /\ file \in Seq(UIDs)
  /\ idx \in 1..(MaxUid + 1)
  /\ uid \in UIDs \cup {0}
  /\ category \in VALID_CATEGORIES \cup {"None"}
  /\ disp \in Dispositions \cup {"None", "skipped"}
  /\ faults \in 0..MaxFaults
  /\ Len(cls) <= 1
  /\ \A k \in 1..Len(cls) :
       cls[k] \in [empty : BOOLEAN, called : BOOLEAN,
                   response : Responses \cup {"None"}]
  /\ IMAP_PASSWORD \in BOOLEAN /\ GEMINI_API_KEY \in BOOLEAN
  /\ gemini_model \in BOOLEAN
  /\ caught \in BOOLEAN
  /\ tail = <<>>
  /\ file_existed \in BOOLEAN
  /\ workers \in [Workers -> [pc : {"check", "process", "mark"},
                              uid : UIDs \cup {0}, classified : SUBSET UIDs]]
  /\ email_body = <<>> /\ truncated_body = <<>>
  /\ max_chars = MAX_BODY_CHARS_FOR_GEMINI
  /\ exit_code \in {<<>>} \cup {<<c>> : c \in {EXIT_RETURN} \cup EXIT_INTERRUPT}
  /\ pc \in {"start", "init_gemini", "exited", "probe", "connect", "probe2",
             "select", "search", "loop", "mark"} \cup CallPcs

\* ------------------------------------------------------ history predicates
HasOp(o, r) == \E k \in 1..Len(ops) : ops[k] = Op(o, r)

Issued(o) == \E k \in 1..Len(ops) : ops[k].op = o

LastOp == ops[Len(ops)]

\* this step issues the call o for the identifier i
Issues(o, i) ==
  /\ uid' = i
  /\ Len(ops') > Len(ops)
  /\ \E k \in (Len(ops) + 1)..Len(ops') : ops'[k].op = o

\* every message that is fetched is unseen when the fetch is issued: it came
\* out of the unseen search of this batch
UnseenBeforeFetch ==
  (pc = "fetch" /\ uid \in inbox) => "Seen" \notin flags[uid]

\* ------------------------------------------------------------------ claims

\* C1: an identifier that is in the processed set is never fetched and never
\* classified by the loop, in the cycle where it is found processed or in any
\* later one, although the unseen search keeps returning it.
C1_AtMostOneProcessing ==
  [][\A i \in UIDs :
       i \in cache => ~Issues("fetch", i) /\ ~Issues("classify", i)]_vars

\* C1 witness: the search returned a processed identifier that is still
\* unseen in the source folder, and the loop skipped it
C1_Witness ==
  /\ pc = "loop" /\ disp = "skipped"
  /\ uid \in cache /\ uid \in inbox /\ "Seen" \notin flags[uid]
  /\ ops = <<>>

\* C2 (as claimed): every identifier of the in-memory set has its line in the
\* durable log, in every state, also after a failed append.
C2_WriteBeforeAcknowledge == cache \subseteq Range(file)

C4_FailedMoveNotMarkedBatchGoesOn ==
  /\ [](disp = "move_failed" => pc = "loop" /\ uid \notin cache)
  /\ [][(disp = "None" /\ disp' = "move_failed") =>
          /\ cache' = cache /\ file' = file
          /\ idx' = next_uid_index(idx)
          /\ unseen_email_uids' = unseen_email_uids
          /\ mail_connection' = mail_connection]_vars
  /\ [][(disp = "move_failed" /\ idx <= Len(unseen_email_uids)) =>
          /\ uid' = unseen_email_uids[idx]
          /\ pc' = IF unseen_email_uids[idx] \in cache THEN "loop" ELSE "fetch"]_vars

\* C4 witness: a move has just failed and the batch has a further identifier
C4_Witness ==
  /\ disp = "move_failed" /\ pc = "loop"
  /\ Issued("copy")
  /\ idx <= Len(unseen_email_uids)
  /\ unseen_email_uids[idx] \notin cache

\* C5: when the copy of move_email does not succeed, no Deleted flag is stored,
\* no expunge is issued, the flags of the source folder are what they were
\* before the call and the identifier is not marked processed.
C5_CopyFailureLeavesSource ==
  /\ [](\A k \in 1..Len(ops) :
          (ops[k].op = "copy" /\ ops[k].res # "OK") =>
             /\ k = Len(ops)
             /\ ~Issued("store_deleted") /\ ~Issued("expunge")
             /\ disp = "move_failed" /\ pc = "loop"
             /\ uid \notin cache)
  /\ [][(pc = "copy" /\ LastOp'.op = "copy" /\ LastOp'.res # "OK") =>
          flags' = flags /\ inbox' = inbox /\ cache' = cache]_vars

\* C5 witness: move_email ended on a copy that was rejected or raised
C5_Witness ==
  /\ Len(ops) > 0 /\ LastOp.op = "copy" /\ LastOp.res # "OK"
  /\ disp = "move_failed" /\ uid \in inbox

\* C6 (as claimed): a connection-fatal error raised while one message is
\* processed aborts the rest of the batch, nothing is issued for a later
\* identifier on that session.  The search of a batch is answered on a live
\* transport, so a transport that is down at the fetch of an identifier failed
\* while an earlier identifier of the batch was processed: the loop never
\* stands at a fetch with such a session.
C6_FatalErrorAbortsBatch == (pc = "fetch") => linkUp

\* C7 (as claimed): once the fetch and the flag restore are over, the message
\* is unseen, as it was before the fetch (UnseenBeforeFetch).
C7_FetchKeepsSeenState ==
  (pc = "classify" /\ uid \in inbox) => "Seen" \notin flags[uid]

\* C8: for a message classified to the category of the source folder no copy,
\* no Deleted-flag store and no expunge is issued; the one mutating command
\* of the call is the store that clears \Seen, and nothing of the mailbox but
\* the \Seen flag of that message changes during the call.
C8_StayIssuesNoMove ==
  /\ []((category # "None" /\ destination_folder(category) = SOURCE_INBOX) =>
          /\ pc \notin {"copy", "store_deleted", "expunge"}
          /\ disp = "stay"
          /\ \A k \in 1..Len(ops) :
               ops[k].op \in {"fetch", "store_unseen", "classify", "delay"})
  /\ [][(pc \in CallPcs /\ disp' \in {"None", "stay"}
           /\ pc' \notin {"copy", "store_deleted", "expunge"}
           /\ ~Issued("copy")) =>
          /\ inbox' = inbox /\ folders' = folders
          /\ \A m \in UIDs :
               /\ flags'[m] \ {"Seen"} = flags[m] \ {"Seen"}
               /\ (m # uid => flags'[m] = flags[m])]_vars

\* C8 witness: a message was classified Personal and the call ended
C8_Witness ==
  /\ disp = "stay" /\ category = "Personal"
  /\ HasOp("store_unseen", "OK") /\ uid \in inbox

\* C9 (as claimed): after the loop processed a message that stays, it is in
\* the source folder, unseen, in the processed set and once in the log.
C9_StayEndState ==
  (disp = "stay" /\ pc = "loop") =>
     /\ uid \in inbox
     /\ "Seen" \notin flags[uid]
     /\ uid \in cache
     /\ Count(file, uid) = 1

\* C10: when the category maps to another folder and copy, flag-deleted and
\* expunge all answered OK, the message is gone from the source folder, has a
\* copy in the mapped folder, and once main has marked it, is in the processed
\* set.
C10_MoveEndState ==
  (HasOp("copy", "OK") /\ HasOp("store_deleted", "OK") /\ HasOp("expunge", "OK")) =>
     /\ destination_folder(category) \in DestFolders
     /\ disp = "moved"
     /\ uid \notin inbox
     /\ uid \in folders[destination_folder(category)]
     /\ pc \in {"mark", "loop"}
     /\ (pc = "loop" => uid \in cache)

\* C10 witness: a Spam message was moved and marked
C10_Witness ==
  /\ disp = "moved" /\ pc = "loop" /\ category = "Spam"
  /\ uid \in folders["INBOX.spam"] /\ uid \notin inbox /\ uid \in cache

\* ------------------------------------------------------------------ C11
\* the service was called for the current message and raised or answered
\* with a text that is not one of the four categories
ClassificationFailed ==
  /\ cls # <<>>
  /\ cls[1].called
  /\ cls[1].response \notin VALID_CATEGORIES

\* C11: whenever the external call raises or returns a text outside the four
\* categories, the message gets the fallback category, the pipeline does not
\* take its error path, and the folder mapping of the fallback category is
\* applied: the message stays when that folder is the source folder, else it
\* is copied into that folder.
C11_ClassificationErrorAbsorbed ==
  ClassificationFailed =>
    /\ category = FALLBACK
    /\ pc # "restore2"
    /\ disp \notin {"error", "unknown"}
    /\ IF stays_in_source(FOLDER_MAPPING[FALLBACK])
       THEN disp = "stay"
       ELSE /\ pc = "copy" \/ Issued("copy")
            /\ HasOp("copy", "OK") => uid \in folders[FOLDER_MAPPING[FALLBACK]]

C11_Witness ==
  /\ ClassificationFailed
  /\ cls[1].response = "EXC"
  /\ category = FALLBACK
  /\ HasOp("copy", "OK")
  /\ uid \in folders[FOLDER_MAPPING[FALLBACK]]

\* ------------------------------------------------------------------ C12
\* C12: a message whose classification failed is never copied out of,
\* flagged deleted in or expunged from the source folder: the folder of the
\* fallback category is the source folder.
C12_FallbackLeavesSource ==
  ClassificationFailed =>
    /\ stays_in_source(destination_folder(category))
    /\ pc \notin {"copy", "store_deleted", "expunge"}
    /\ ~Issued("copy") /\ ~Issued("store_deleted") /\ ~Issued("expunge")

\* ------------------------------------------------------------------ C13
\* C13: when subject and body of the message are both empty, the message
\* gets the default category and the external service is not called.
C13_EmptyMessageNotSent ==
  (cls # <<>> /\ cls[1].empty) =>
    /\ ~cls[1].called
    /\ cls[1].response = "None"
    /\ category = FALLBACK

C13_Witness ==
  /\ cls # <<>>
  /\ cls[1].empty
  /\ ~cls[1].called
  /\ category = FALLBACK
  /\ pc = "copy"

LoopPcs == {"probe", "connect", "probe2", "select", "search", "loop", "mark"}
           \cup CallPcs

\* C15: an error that reaches the top level of the loop body is caught
\* there: the process keeps running, the session is discarded, and the next
\* step of the loop (after the sleep) goes to a fresh connect; and from every
\* state of the loop the next state is a state of the loop again: without an
\* interrupt the process never exits once it passed its startup checks.
C15_TopLevelCatchLoopGoesOn ==
  /\ [](caught => /\ pc = "probe"
                  /\ mail_connection = "None"
                  /\ ~selected
                  /\ exit_code = <<>>)
  /\ [][caught => pc' = "connect" /\ ~caught' /\ mail_connection' = "None"]_vars
  /\ [][(pc \in LoopPcs) => (pc' \in LoopPcs /\ exit_code' = exit_code)]_vars

C15_Witness ==
  /\ caught
  /\ pc = "probe"
  /\ mail_connection = "None"
  /\ gemini_model
  /\ faults = 1

\* ------------------------------------------------------------------ C16
\* the process ended after it had entered its loop
ExitedFromLoop == pc = "exited" /\ gemini_model

\* a message was fetched and its disposition is not committed yet: the call
\* of process_single_email has not returned, or it returned True and the
\* identifier is not marked
MidMessage ==
  \/ ops # <<>> /\ disp = "None"
  \/ disp \in Dispositions /\ process_single_email_returns(disp)
                            /\ uid \notin cache

\* C16: the process leaves its loop on an interrupt only between two
\* iterations, never between the fetch of a message and the commit of its
\* disposition; no session is left that was not logged out, and the exit
\* code is 0.
C16_InterruptAtBoundaryGraceful ==
  ExitedFromLoop =>
    /\ ~MidMessage
    /\ mail_connection = "None"
    /\ exit_code = <<0>>

\* ------------------------------------------------------------------ C17
\* C17: when IMAP_PASSWORD or GEMINI_API_KEY is missing the process exits at
\* once with a non-zero exit code; no connection was attempted, nothing was
\* scanned, nothing retried.
C17_MissingConfigExitsNonZero ==
  (pc # "start" /\ ~pre_run_checks(IMAP_PASSWORD, GEMINI_API_KEY)) =>
    /\ pc = "exited"
    /\ Len(exit_code) = 1 /\ exit_code[1] # 0
    /\ mail_connection = "None" /\ ~linkUp
    /\ unseen_email_uids = <<>> /\ ops = <<>>
    /\ faults = 0

\* ------------------------------------------------------------------ C18
MoveOps == {"copy", "store_deleted", "expunge"}

\* C18: move_email succeeds exactly when copy, store of \Deleted and expunge
\* all answered OK; the store of \Deleted directly follows a copy that
\* answered OK, the expunge directly follows a store that answered OK, and
\* when one of the three did not answer OK the move has failed, nothing
\* follows the failed command and the message is still in the source folder.
C18_MoveIsOrderedAllOrNothing ==
  /\ disp = "moved" <=> /\ HasOp("copy", "OK")
                        /\ HasOp("store_deleted", "OK")
                        /\ HasOp("expunge", "OK")
  /\ \A k \in 1..Len(ops) :
       /\ ops[k].op = "store_deleted" => k > 1 /\ ops[k-1] = Op("copy", "OK")
       /\ ops[k].op = "expunge" => k > 1 /\ ops[k-1] = Op("store_deleted", "OK")
       /\ (ops[k].op \in MoveOps /\ ops[k].res # "OK") =>
            /\ k = Len(ops)
            /\ disp = "move_failed"
            /\ uid \in inbox
  /\ disp = "move_failed" => \E k \in 1..Len(ops) :
                                ops[k].op \in MoveOps /\ ops[k].res # "OK"

C18_Witness ==
  /\ HasOp("copy", "OK")
  /\ HasOp("store_deleted", "NO")
  /\ ~Issued("expunge")
  /\ disp = "move_failed"
  /\ uid \in inbox
  /\ "Deleted" \notin flags[uid]

\* ------------------------------------------------------------------ C19
IsPrefix(a, b) == Len(a) <= Len(b) /\ SubSeq(b, 1, Len(a)) = a

\* C19: in every step no identifier leaves the in-memory set and the log
\* before the step is a prefix of the log after it (so every earlier content
\* of the log is a prefix of every later one).
C19_SetGrowsLogAppendOnly ==
  [][cache \subseteq cache' /\ IsPrefix(file, file')]_vars

C19_Witness ==
  /\ pc = "loop"
  /\ disp \in {"stay", "moved"}
  /\ Len(file) >= 2
  /\ file[Len(file)] = uid
  /\ Cardinality(cache) >= 2
  /\ uid \in cache

\* ------------------------------------------------------------------ C20
\* the call process_single_email(uid) returned True, the identifier was
\* marked and the append of its line failed
MarkedWithoutLine ==
  /\ pc = "loop"
  /\ disp \in Dispositions /\ process_single_email_returns(disp)
  /\ uid \in cache
  /\ uid \notin Range(file)

\* C20: a step that marks an identifier and fails to append its line raises
\* nothing: the session, the mailbox and the disposition of the message are
\* as before, the identifier counts as processed for this run, the for loop
\* goes on with the next identifier of the batch; the log is unchanged, so a
\* restart would not know the identifier.
C20_WriteFailureAbsorbed ==
  /\ [][(pc = "mark" /\ uid \notin cache /\ file' = file) =>
         /\ pc' = "loop" /\ ~caught' /\ exit_code' = exit_code
         /\ mail_connection' = mail_connection /\ linkUp' = linkUp
         /\ serverVars' = serverVars
         /\ disp' = disp /\ uid' = uid
         /\ idx' = next_uid_index(idx) /\ unseen_email_uids' = unseen_email_uids
         /\ cache' = cache \cup {uid}
         /\ uid \notin load_processed_uids(file')]_vars
  /\ [][(MarkedWithoutLine /\ idx <= Len(unseen_email_uids)) =>
         /\ uid' = unseen_email_uids[idx]
         /\ pc' = IF unseen_email_uids[idx] \in cache THEN "loop" ELSE "fetch"]_vars

C20_Witness ==
  /\ MarkedWithoutLine
  /\ disp = "stay"
  /\ idx <= Len(unseen_email_uids)
  /\ unseen_email_uids[idx] \notin cache

\* ------------------------------------------------------------------ C21
\* C21: when the file ends with an unterminated line, the load ignores that
\* line: every identifier of the processed set is the text of a complete
\* line of the file.
C21_PartialLineIgnored ==
  (pc # "import" /\ tail # <<>>) => cache \subseteq load_processed_uids(file)

\* ------------------------------------------------------------------ C22
\* C22: the load finishes without an error, whatever the file holds; when
\* the file does not exist the processed set is empty, and a blank line is
\* never an identifier of the set.
C22_LoadNeverFails ==
  pc # "import" =>
    /\ pc = "start"
    /\ exit_code = <<>>
    /\ ~file_existed => cache = {}
    /\ BLANK \notin cache

\* ------------------------------------------------------------------ C23
\* the ways process_single_email ends without a disposition of the message
Undisposed == {"fetch_failed", "no_content", "error", "move_failed"}

\* C23: a message whose processing ended without a disposition and that is
\* still in the source folder is still unseen, so that the unseen search of
\* the next cycle returns it again.
C23_UndisposedStaysUnseen ==
  (disp \in Undisposed /\ uid \in inbox) => "Seen" \notin flags[uid]

\* ------------------------------------------------------------------ C24
\* C24: the identifier of a message is marked only after a definite
\* disposition: main() is about to mark only when the message was classified
\* to stay in the source folder or when copy, store of \Deleted and expunge
\* all answered OK; after a fetch failure, a processing error or a failed
\* move the identifier is not in the processed set.
C24_MarkedOnlyOnDisposition ==
  /\ pc = "mark" =>
       \/ /\ disp = "stay"
          /\ stays_in_source(destination_folder(category))
          /\ ~Issued("copy")
       \/ /\ disp = "moved"
          /\ HasOp("copy", "OK")
          /\ HasOp("store_deleted", "OK")
          /\ HasOp("expunge", "OK")
  /\ disp \in Undisposed => pc = "loop" /\ uid \notin cache
  /\ (pc = "loop" /\ uid \in cache /\ disp # "skipped") =>
       disp \in {"stay", "moved"}

C24_Witness ==
  /\ disp = "error"
  /\ pc = "loop"
  /\ HasOp("fetch", "OK")
  /\ uid \in inbox
  /\ uid \notin cache

\* ------------------------------------------------------------------ C25
\* C25: once a message was classified, the call of process_single_email
\* does not end before the inter-message delay was slept, whether the
\* message stays, is moved or its move fails.
C25_DelayAfterClassification ==
  (Issued("classify") /\ pc \in {"mark", "loop"}) => Issued("delay")

\* ------------------------------------------------------------------ C26
\* the last command of the move of the current message was rejected
MoveRejected ==
  /\ Len(ops) > 0
  /\ LastOp.op \in MoveOps
  /\ LastOp.res = "NO"

\* C26: when the server rejects a command of the move, the move has failed
\* and nothing else happened: the message is in the source folder and not
\* marked, the session is the same, alive and with the source folder
\* selected, no handler ran; and the for loop goes on to the next identifier
\* on that same session.
C26_OperationErrorKeepsSession ==
  /\ [](MoveRejected => /\ disp = "move_failed"
                        /\ pc = "loop"
                        /\ uid \in inbox
                        /\ uid \notin cache
                        /\ mail_connection = "Session"
                        /\ linkUp /\ selected
                        /\ ~caught)
  /\ [][(MoveRejected /\ idx <= Len(unseen_email_uids)) =>
         /\ uid' = unseen_email_uids[idx]
         /\ pc' = IF unseen_email_uids[idx] \in cache THEN "loop" ELSE "fetch"
         /\ sessVars' = sessVars]_vars

C26_Witness ==
  /\ MoveRejected
  /\ LastOp.op = "copy"
  /\ disp = "move_failed"
  /\ idx <= Len(unseen_email_uids)
  /\ unseen_email_uids[idx] \notin cache
  /\ linkUp

\* ------------------------------------------------------------------ C27
\* C27: the select of a cycle directly follows a liveness probe that
\* answered OK on the session; a probe that fails, or finds no session, is
\* followed by a connect; a connect that fails, or whose session fails its
\* probe, is followed by the probe of the next cycle: nothing is selected,
\* searched or fetched in between.
C27_ProbeBeforeScan ==
  /\ [](pc = "select" => mail_connection = "Session" /\ linkUp)
  /\ [](pc \in {"search"} \cup CallPcs => mail_connection = "Session")
  /\ [][pc' = "select" => pc \in {"probe", "probe2"}]_vars
  /\ [][(pc = "probe" /\ pc' # "select") => pc' = "connect"]_vars
  /\ [][(pc = "connect" /\ mail_connection' = "None") => pc' = "probe"]_vars
  /\ [][(pc = "probe2" /\ pc' # "select") => pc' = "probe"]_vars
  /\ [][pc' = "search" => pc = "select"]_vars

C27_Witness ==
  /\ pc = "connect"
  /\ mail_connection = "Session"
  /\ ~linkUp
  /\ faults >= 1

\* ------------------------------------------------------------------ C28
\* C28: a connect that fails leaves no session and is followed by the probe
\* of the next cycle; a select that does not answer OK drops the session
\* (logged out, not selected), issues nothing for any message and is followed
\* by the probe of the next cycle; and that probe, finding no session, is
\* followed by a connect.
C28_ConnectOrSelectFailure ==
  /\ [][(pc = "connect" /\ pc' # "probe2") =>
         (pc' = "probe" /\ mail_connection' = "None")]_vars
  /\ [][(pc = "select" /\ pc' # "search") =>
         /\ pc' = "probe"
         /\ mail_connection' = "None"
         /\ ~selected' /\ ~linkUp'
         /\ batchVars' = batchVars
         /\ serverVars' = serverVars]_vars
  /\ [][(pc = "probe" /\ mail_connection = "None") =>
         (pc' = "connect" /\ batchVars' = batchVars)]_vars

C28_Witness ==
  /\ pc = "probe"
  /\ mail_connection = "None"
  /\ ~caught
  /\ ~selected
  /\ faults = 2
  /\ inbox # {}

\* ------------------------------------------------------------------ C29
\* C29: whenever main() is about to search, or is inside the pipeline of a
\* message, or has issued commands for the current message, it holds a
\* session on which the select of the source folder answered OK and on
\* which nothing else was selected since.
C29_OperationsOnSelectedFolder ==
  (pc \in {"search"} \cup CallPcs \/ ops # <<>>) =>
    /\ mail_connection = "Session"
    /\ selected

C29_Witness ==
  /\ pc = "expunge"
  /\ selected
  /\ linkUp
  /\ HasOp("copy", "OK")
  /\ HasOp("store_deleted", "OK")

\* ------------------------------------------------------------------ C30
\* the copy of the current message answered OK and the store of \Deleted or
\* the expunge after it did not
CopiedThenFailed ==
  /\ HasOp("copy", "OK")
  /\ \E k \in 1..Len(ops) :
       ops[k].op \in {"store_deleted", "expunge"} /\ ops[k].res # "OK"

\* C30: a call of move_email issues at most one copy; when the copy
\* answered OK and a later step failed, the move has failed, the failed
\* command is the last one issued (no retry, no undo), the message is in the
\* source folder and its copy is in the destination folder.
C30_NonAtomicMoveNoUndo ==
  /\ Cardinality({k \in 1..Len(ops) : ops[k].op = "copy"}) <= 1
  /\ CopiedThenFailed =>
       /\ disp = "move_failed"
       /\ pc = "loop"
       /\ LastOp.op \in {"store_deleted", "expunge"} /\ LastOp.res # "OK"
       /\ uid \in inbox
       /\ uid \in folders[destination_folder(category)]

C30_Witness ==
  /\ CopiedThenFailed
  /\ HasOp("store_deleted", "OK")
  /\ HasOp("expunge", "NO")
  /\ uid \in inbox
  /\ "Deleted" \in flags[uid]
  /\ uid \in folders[destination_folder(category)]

\* C31: a call of classify_email_with_gemini, whatever its outcome (a valid
\* category, an invalid answer, a raise, or no call of the service at all),
\* leaves the session, the flags, the folders, the processed set and the log
\* as they were.
C31_ClassificationIsPure ==
  [][(pc = "classify" /\ cls' # cls) =>
       UNCHANGED <<sessVars, serverVars, cache, file>>]_vars

\* C31 witness: the service raised while classifying a message of a live,
\* selected session, with an identifier already in the set and in the log
C31_Witness ==
  /\ cls # <<>>
  /\ cls[1].called /\ cls[1].response = "EXC"
  /\ mail_connection = "Session" /\ linkUp /\ selected
  /\ cache # {} /\ file # <<>>
  /\ uid \in inbox /\ uid \notin cache

AscendingList ==
  \A j, k \in 1..Len(unseen_email_uids) :
    j < k => unseen_email_uids[j] < unseen_email_uids[k]

\* the identifier that is being handled is the one the for loop is at
AtLoopPosition ==
  (pc \in CallPcs \cup {"mark"}) =>
    idx <= Len(unseen_email_uids) /\ uid = unseen_email_uids[idx]

\* a step of the cycle keeps to the list: it passes a position only when the
\* identifier there is in the processed set or was handed to
\* process_single_email, and it leaves the list only after its last position
KeepsToList ==
  /\ (idx' # idx) =>
       \/ /\ idx' = idx + 1
          /\ idx <= Len(unseen_email_uids)
          /\ unseen_email_uids' = unseen_email_uids
          /\ \/ (pc = "loop" /\ is_uid_processed(cache, unseen_email_uids[idx]))
             \/ pc \in CallPcs \cup {"mark"}
       \/ /\ idx' = 1
          /\ (pc = "search") \/ (pc = "loop" /\ idx > Len(unseen_email_uids))
  /\ (unseen_email_uids' # unseen_email_uids) =>
       ((pc = "search") \/ (pc = "loop" /\ idx > Len(unseen_email_uids)))
  /\ (pc = "loop" /\ pc' = "fetch") =>
       (uid' = unseen_email_uids[idx] /\ idx' = idx)

\* C33: within a cycle the loop takes the identifiers in the order of the
\* list the unseen search returned (ascending), each once, one position at a
\* time, so that no unprocessed identifier of the list is skipped.
C33_ListOrderNoneSkipped ==
  [](AscendingList /\ AtLoopPosition) /\ [][KeepsToList]_vars

\* C33 witness: a cycle over two or more identifiers is at its end; the
\* first of them was handled and is not marked, the last one was moved
C33_Witness ==
  /\ pc = "loop"
  /\ Len(unseen_email_uids) >= 2
  /\ idx = Len(unseen_email_uids) + 1
  /\ unseen_email_uids[1] \notin cache
  /\ uid = unseen_email_uids[Len(unseen_email_uids)]
  /\ disp = "moved"

\* C34: the body put in the prompt is never longer than max_chars: it is the
\* first min(length, max_chars) characters of the stripped body.
C34_SubmittedBodyIsCutPrefix ==
  truncated_body # <<>> =>
    LET t == truncated_body[1]
        stripped == strip(email_body)
        n == IF Len(stripped) < max_chars THEN Len(stripped) ELSE max_chars
    IN /\ Len(t) <= max_chars
       /\ Len(t) = n
       /\ \A k \in 1..n : t[k] = stripped[k]

\* C34 witness: a body with white space in front that is longer than
\* max_chars after the strip was put in the prompt, cut to max_chars
C34_Witness ==
  /\ truncated_body # <<>>
  /\ email_body # <<>> /\ email_body[1] = " "
  /\ Len(strip(email_body)) > max_chars
  /\ Len(truncated_body[1]) = max_chars

HasCopy(m) == \E f \in DestFolders : m \in folders[f]

\* a step loses no message: what leaves the source folder has a copy, no
\* copy is taken away, and \Deleted is stored only after the copy was OK
LosesNothing ==
  /\ \A m \in inbox \ inbox' : \E f \in DestFolders : m \in folders'[f]
  /\ \A f \in DestFolders : folders[f] \subseteq folders'[f]
  /\ Issues("store_deleted", uid) => HasOp("copy", "OK")

C36_MoveRemovesOnlyTheMessage ==
  [][\A m \in inbox \ inbox' : m = uid]_vars

\* C36 as amended: a move whose expunge answers OK removes from the source
\* folder exactly the messages that carry \Deleted then, the moved one and
\* any other; messages without the flag stay, and nothing but an expunge
\* removes a message.
C36_MoveRemovesEveryDeleted ==
  [][(inbox' # inbox) =>
       /\ pc = "expunge"
       /\ inbox' = {m \in inbox : "Deleted" \notin flags[m]}
       /\ uid \notin inbox']_vars

\* C36 witness: the move of uid has purged another message too: it is gone
\* from the source folder, has a copy, and was never marked, because its own
\* move had failed at the expunge
C36_Witness ==
  /\ pc = "mark" /\ disp = "moved"
  /\ uid \notin inbox
  /\ \E m \in UIDs \ {uid} :
       m \notin inbox /\ HasCopy(m) /\ m \notin cache

\* C37: the classification always ends with one of the four categories and
\* each of them has a folder, so process_single_email never ends in the
\* branch for a category without folder.
C37_UnknownBranchUnreachable ==
  /\ disp # "unknown"
  /\ category # "None" =>
       category \in VALID_CATEGORIES /\ destination_folder(category) # "None"

\* C37 witness: the service answered with something that is no category, the
\* message got the fallback category and its move is under way
C37_Witness ==
  /\ cls # <<>>
  /\ cls[1].called /\ cls[1].response = "garbage"
  /\ category = FALLBACK
  /\ pc = "copy"

\* C38: once the faults are over (connect, select, search, fetch, the flag
\* stores, the classification and the moves succeed), every message that is
\* unseen in the source folder while the loop runs is marked processed in
\* the end.
C38_EventualProcessing ==
  \A m \in UIDs :
    (pc \in LoopPcs /\ m \in inbox /\ "Seen" \notin flags[m]) ~> (m \in cache)

\* the positions of main() where a command goes to the session
SessionPcs == {"select", "search"} \cup CallPcs

\* a step of the loop connects only after the probe found no session or a
\* dead one (it raised on a dead transport, or it failed on a live one), and
\* mail_connection is assigned nowhere but at the connect, after a failed
\* select and in the handler of line 126
ReplacesOnlyDeadSession ==
  /\ (pc' = "connect") =>
       /\ pc = "probe"
       /\ mail_connection = "None" \/ ~linkUp \/ faults' > faults
  /\ (pc = "connect") =>
       (pc' \in {"probe", "probe2"} /\ (pc' = "probe2") = (mail_connection' = "Session"))
  /\ (mail_connection' # mail_connection) =>
       pc \in {"connect", "select", "search", "mark"}

\* C39: there is one session at a time: a connect happens only when there
\* is no session or its probe failed, the new session takes the place of
\* the old one, and every command goes to the session main() holds.
C39_OneSession ==
  []((pc \in SessionPcs) => mail_connection = "Session")
    /\ [][ReplacesOnlyDeadSession]_vars

\* C39 witness: main() still holds a session whose probe has just failed and
\* is about to log it out and connect again
C39_Witness ==
  /\ pc = "connect"
  /\ mail_connection = "Session"
  /\ ~linkUp
====
